---- MODULE Spec2Model ----
(***************************************************************************)
(* GSTIN verify / submit backend (src/app.py).                             *)
(*                                                                         *)
(* Strings are sequences of one-character strings.  JSON values are        *)
(* records [t, v]: t = "str" with the characters in v, t = "absent" for a   *)
(* missing key or a falsy value (null, 0, false, "", [], {}), t = "other"   *)
(* for a truthy value that is not a string (5, true, [1], {"a":1}).         *)
(* Each request handler is a process; its steps are split where it reads   *)
(* or writes state shared with other requests (the module globals pool and *)
(* _schema_ready, and the database).                                       *)
(***************************************************************************)
EXTENDS Integers, Sequences, FiniteSets, TLC

VARIABLES
    secretSet,      \* APPYFLOW_KEY_SECRET is non-empty (app.py:29)
    dbUrlSet,       \* DATABASE_URL is non-empty (app.py:30)
    pool,           \* global pool (app.py:56): 0 is None, n > 0 the n-th pool built
    poolsBuilt,     \* number of ConnectionPool objects constructed so far
    schema_ready,   \* global _schema_ready (app.py:57)
    tableCreated,   \* the submissions table exists in the database
    rows,           \* the rows of table submissions
    req             \* the request handlers, one per slot

vars == <<secretSet, dbUrlSet, pool, poolsBuilt, schema_ready, tableCreated, rows, req>>

\* ------------------------------------------------------------------ bounds

\* Number of requests a behaviour serves (one handler thread each).
NumRequests == 2

\* Whitespace characters added on each side of a raw GSTIN input.
MaxPad == 1

\* ------------------------------------------------------------- characters

GstinLen == 15

AsciiDigits == {"0", "1", "2", "3", "4", "5", "6", "7", "8", "9"}

\* ARABIC-INDIC DIGIT THREE: a decimal digit (category Nd) outside ASCII.
ArabicThree == "U+0663"

\* LATIN SMALL LETTER SHARP S: its uppercase form is the two letters SS.
SharpS == "U+00DF"

UpperLetters == <<"A", "B", "C", "D", "E", "F", "G", "H", "I", "J", "K", "L", "M",
                  "N", "O", "P", "Q", "R", "S", "T", "U", "V", "W", "X", "Y", "Z">>

LowerLetters == <<"a", "b", "c", "d", "e", "f", "g", "h", "i", "j", "k", "l", "m",
                  "n", "o", "p", "q", "r", "s", "t", "u", "v", "w", "x", "y", "z">>

Range(f) == {f[i] : i \in DOMAIN f}

Whitespace == {" ", "\n"}

\* \d of a str pattern: any Unicode decimal digit.
IsDigit(c) == c \in AsciiDigits \cup {ArabicThree}

\* [A-Z]
IsUpperAZ(c) == c \in Range(UpperLetters)

\* [A-Z0-9]
IsUpperAZ09(c) == c \in Range(UpperLetters) \cup AsciiDigits

\* str.upper() of one character (a string: the sharp s becomes two letters).
UpperChar(c) ==
    IF c \in Range(LowerLetters)
    THEN <<UpperLetters[CHOOSE i \in DOMAIN LowerLetters : LowerLetters[i] = c]>>
    ELSE IF c = SharpS THEN <<"S", "S">>
    ELSE <<c>>

RECURSIVE Upper(_)
Upper(s) == IF s = <<>> THEN <<>> ELSE UpperChar(Head(s)) \o Upper(Tail(s))

RECURSIVE LStrip(_)
LStrip(s) == IF s # <<>> /\ Head(s) \in Whitespace THEN LStrip(Tail(s)) ELSE s

RECURSIVE RStrip(_)
RStrip(s) ==
    IF s # <<>> /\ s[Len(s)] \in Whitespace THEN RStrip(SubSeq(s, 1, Len(s) - 1)) ELSE s

\* str.strip()
Strip(s) == RStrip(LStrip(s))

\* ------------------------------------------------------------ JSON values

Str(s) == [t |-> "str", v |-> s]
Absent == [t |-> "absent", v |-> <<>>]
Other == [t |-> "other", v |-> <<>>]

\* (x or ""): a falsy value becomes the empty string, a truthy one stays.
OrEmpty(x) == IF x.t = "absent" THEN Str(<<>>) ELSE x

\* Whether (x or "").strip() raises AttributeError: x is truthy and not a string.
StripRaises(x) == OrEmpty(x).t # "str"

\* (x or "").strip()
Stripped(x) == Strip(OrEmpty(x).v)

\* (x or "").strip().upper()
Normalized(x) == Upper(Strip(OrEmpty(x).v))

\* GSTIN_REGEX.match(s): ^\d{2}[A-Z]{5}\d{4}[A-Z][A-Z0-9]Z[A-Z0-9]$ ; the $ also
\* matches just before a newline that ends the string.
RegexMatchMissingZ(s) ==
    /\ Len(s) >= GstinLen
    /\ \A i \in {1, 2} : IsDigit(s[i])
    /\ \A i \in 3..7 : IsUpperAZ(s[i])
    /\ \A i \in 8..11 : IsDigit(s[i])
    /\ IsUpperAZ(s[12])
    /\ IsUpperAZ09(s[13])
    /\ IsUpperAZ09(s[14])
    /\ IsUpperAZ09(s[15])
    /\ \/ Len(s) = GstinLen
       \/ Len(s) = GstinLen + 1 /\ s[GstinLen + 1] = "\n"

RegexMatch(s) ==
    /\ Len(s) >= GstinLen
    /\ \A i \in {1, 2} : IsDigit(s[i])
    /\ \A i \in 3..7 : IsUpperAZ(s[i])
    /\ \A i \in 8..11 : IsDigit(s[i])
    /\ IsUpperAZ(s[12])
    /\ IsUpperAZ09(s[13])
    /\ s[14] = "Z"
    /\ IsUpperAZ09(s[15])
    /\ \/ Len(s) = GstinLen
       \/ Len(s) = GstinLen + 1 /\ s[GstinLen + 1] = "\n"

\* -------------------------------------------------------------- responses

\* What jsonify(...) and the status give the caller.  fields are the success
\* values: <<gstn, legal_name, firm_name>> for verify, <<id>> for submit.
Response(status, ok, message, code, fields) ==
    [status |-> status, unhandled |-> FALSE, ok |-> ok, message |-> message,
     code |-> code, fields |-> fields]

\* An exception no handler catches: Flask answers 500 with its own error page,
\* not with the JSON the handlers build.
Unhandled ==
    [status |-> 500, unhandled |-> TRUE, ok |-> FALSE, message |-> Absent,
     code |-> "", fields |-> <<>>]

\* The handler has not returned yet.
NoResponse ==
    [status |-> 0, unhandled |-> FALSE, ok |-> FALSE, message |-> Absent,
     code |-> "", fields |-> <<>>]

MsgRequired == Str(<<"GSTIN is required.">>)
MsgLength == Str(<<"GSTIN must be exactly 15 characters.">>)
MsgFormat == Str(<<"GSTIN format looks invalid.">>)
MsgNoSecret == Str(<<"Server missing APPYFLOW_KEY_SECRET.">>)
MsgBadJson == Str(<<"Invalid JSON from AppyFlow.">>)
MsgVerifyFailed == Str(<<"GST verification failed.">>)
MsgNotFound == Str(<<"Could not find Legal Name / Firm Name for this GSTIN.">>)
MsgFill == Str(<<"Please verify GSTIN and fill Name 1 & Contact.">>)
MsgDuplicate == Str(<<"This GSTIN already exists.">>)
MsgNoDbUrl == <<"Missing DATABASE_URL env var (Neon connection string).">>

\* f"Error contacting AppyFlow: {e}"
MsgContacting(e) == Str(<<"Error contacting AppyFlow: ">> \o e)

\* f"DB insert failed: {e}"
MsgInsertFailed(e) == Str(<<"DB insert failed: ">> \o e)

\* ----------------------------------------------------------------- verify

\* verify_gst up to the outbound call: NoResponse when the call is issued.
VerifyBeforeCall(body, secret) ==
    IF body.shape = "other" \/ StripRaises(body.gstn) THEN Unhandled
    ELSE LET gstn == Normalized(body.gstn) IN
         IF gstn = <<>> THEN Response(400, FALSE, MsgRequired, "", <<>>)
         ELSE IF Len(gstn) # GstinLen THEN Response(400, FALSE, MsgLength, "", <<>>)
         ELSE IF ~RegexMatch(gstn) THEN Response(400, FALSE, MsgFormat, "", <<>>)
         ELSE IF ~secret THEN Response(500, FALSE, MsgNoSecret, "", <<>>)
         ELSE NoResponse

\* resp.raise_for_status(): raises for a 4xx or 5xx status only.
RaisesForStatus(http) == http \in {"4xx", "5xx"}

\* verify_gst from the outbound call on.  up is what the call produced.
VerifyAfterCall(gstn, up) ==
    IF up.kind = "transport" \/ RaisesForStatus(up.http)
    THEN Response(502, FALSE, MsgContacting(up.detail), "", <<>>)
    ELSE IF up.kind = "non_json" THEN Response(502, FALSE, MsgBadJson, "", <<>>)
    ELSE IF up.shape # "obj" THEN Unhandled
    ELSE IF up.error
    THEN Response(400, FALSE,
                  IF up.hasMessage THEN up.message ELSE MsgVerifyFailed, "", <<>>)
    ELSE IF up.infoShape = "other" THEN Unhandled
    ELSE IF StripRaises(up.lgnm) \/ StripRaises(up.tradeNam) THEN Unhandled
    ELSE LET legal_name == Stripped(up.lgnm)
             firm_name == Stripped(up.tradeNam)
         IN  IF legal_name = <<>> /\ firm_name = <<>>
             THEN Response(404, FALSE, MsgNotFound, "", <<>>)
             ELSE Response(200, TRUE, Absent, "", <<gstn, legal_name, firm_name>>)

\* ----------------------------------------------------------------- submit

RequiredFields == {"gstn", "legal_name", "firm_name", "name1", "contact"}
SubmitFields == RequiredFields \cup {"name2"}

\* submit up to the insert: NoResponse when the insert is attempted.
SubmitBeforeInsert(body) ==
    IF body.shape = "other" \/ \E f \in SubmitFields : StripRaises(body[f]) THEN Unhandled
    ELSE LET gstn == Normalized(body.gstn) IN
         IF gstn = <<>> \/ \E f \in RequiredFields \ {"gstn"} : Stripped(body[f]) = <<>>
         THEN Response(400, FALSE, MsgFill, "", <<>>)
         ELSE IF Len(gstn) # GstinLen \/ ~RegexMatch(gstn)
         THEN Response(400, FALSE, MsgFormat, "", <<>>)
         ELSE NoResponse

\* The tuple the insert statement binds, with created_at = now().
RowOf(body, now) ==
    [gstn |-> Normalized(body.gstn), legal_name |-> Stripped(body.legal_name),
     firm_name |-> Stripped(body.firm_name), name1 |-> Stripped(body.name1),
     name2 |-> Stripped(body.name2), contact |-> Stripped(body.contact),
     created_at |-> now]

\* The table's primary key on gstn: whether inserting row raises UniqueViolation.
ViolatesPrimaryKeyNever(table, row) == FALSE

ViolatesPrimaryKey(table, row) == \E x \in table : x.gstn = row.gstn

\* except UniqueViolation / except Exception / return of submit.
SubmitAfterInsertQuiet(gstn, outcome, detail) ==
    IF outcome = "fault"
    THEN Response(500, FALSE, MsgInsertFailed(detail), "", <<>>)
    ELSE Response(200, TRUE, Absent, "", <<gstn>>)

SubmitAfterInsert(gstn, outcome, detail) ==
    IF outcome = "unique_violation"
    THEN Response(409, FALSE, MsgDuplicate, "duplicate", <<>>)
    ELSE IF outcome = "fault"
    THEN Response(500, FALSE, MsgInsertFailed(detail), "", <<>>)
    ELSE Response(200, TRUE, Absent, "", <<gstn>>)

\* healthz: {"status": "ok"} or {"status": "degraded", "db": str(e)}, both 200.
HealthzResponse(outcome, detail) ==
    IF outcome = "fault" THEN Response(200, FALSE, Str(detail), "", <<>>)
    ELSE Response(200, TRUE, Absent, "", <<>>)

\* ----------------------------------------------------------------- inputs

\* The spec's example GSTIN 27AAAAA0000A1Z5, the same in lower case with
\* surrounding whitespace, and a second valid GSTIN.
G1 == <<"2", "7", "A", "A", "A", "A", "A", "0", "0", "0", "0", "A", "1", "Z", "5">>
G1Loose == <<" ", "2", "7", "a", "a", "a", "a", "a", "0", "0", "0", "0", "a", "1", "z", "5", "\n">>
G2 == <<"2", "9", "B", "B", "B", "B", "B", "1", "1", "1", "1", "B", "2", "Z", "6">>
GShort == <<"2", "7", "A", "A", "A", "A", "A">>
GNoZ == <<"2", "7", "A", "A", "A", "A", "A", "0", "0", "0", "0", "A", "1", "Y", "5">>

Acme == <<"A", "C", "M", "E">>
AcmeLoose == <<" ", "A", "c", "m", "e", " ">>
Jane == <<"J", "a", "n", "e">>
Phone == <<"9", "9", "9">>
Blank == <<" ">>

EmptyBody(shape) ==
    [shape |-> shape, gstn |-> Absent, legal_name |-> Absent, firm_name |-> Absent,
     name1 |-> Absent, name2 |-> Absent, contact |-> Absent]

\* A submit body with every required field filled.
FilledBody(g, l) ==
    [shape |-> "obj", gstn |-> Str(g), legal_name |-> Str(l), firm_name |-> Str(Acme),
     name1 |-> Str(Jane), name2 |-> Absent, contact |-> Str(Phone)]

\* Request bodies of /submit: filled ones (same and different GSTINs, differing
\* payloads), ones with one field missing, blank or not a string, malformed
\* GSTINs, and bodies that are not JSON objects.
SubmitBodies ==
    {FilledBody(g, l) : g \in {G1, G1Loose, G2}, l \in {Acme, AcmeLoose}}
    \cup {[FilledBody(G1, Acme) EXCEPT ![f] = x] :
            f \in RequiredFields, x \in {Absent, Str(Blank), Other}}
    \cup {[FilledBody(G1, Acme) EXCEPT !.name2 = x] : x \in {Str(Jane), Other}}
    \cup {FilledBody(g, Acme) : g \in {GShort, GNoZ}}
    \cup {[FilledBody(<<>>, Acme) EXCEPT !.name1 = Other]}
    \cup {EmptyBody("absent"), EmptyBody("other")}

\* Request bodies of /api/verify_gst.
VerifyBodies ==
    {[EmptyBody("obj") EXCEPT !.gstn = x] :
        x \in {Str(G1), Str(G1Loose), Str(Blank), Str(GShort), Str(GNoZ), Other}}
    \cup {EmptyBody("absent"), EmptyBody("other")}

\* str(e) of a transport or storage exception: two texts, to tell a response
\* that carries the text from one that does not.
ErrorTexts == {<<"connection refused">>, <<"timed out">>}

JsonPayload(http, shape, error, hasMessage, message, infoShape, lgnm, tradeNam) ==
    [kind |-> "json", http |-> http, detail |-> <<>>, shape |-> shape, error |-> error,
     hasMessage |-> hasMessage, message |-> message, infoShape |-> infoShape,
     lgnm |-> lgnm, tradeNam |-> tradeNam]

NoPayload(kind, http, detail) ==
    [kind |-> kind, http |-> http, detail |-> detail, shape |-> "null", error |-> FALSE,
     hasMessage |-> FALSE, message |-> Absent, infoShape |-> "absent",
     lgnm |-> Absent, tradeNam |-> Absent]

\* What requests.get(...) can produce: a transport exception (timeout,
\* connection error), or a response with a status class and a body that is not
\* JSON, or JSON that is an object (with error, message, taxpayerInfo), null or
\* another non-object.
UpstreamOutcomes ==
    {NoPayload("transport", "none", e) : e \in ErrorTexts}
    \cup {NoPayload("non_json", h, <<"status ", h>>) : h \in {"2xx", "3xx", "5xx"}}
    \cup {JsonPayload(h, "obj", FALSE, FALSE, Absent, "obj", Str(AcmeLoose), Str(Acme)) :
            h \in {"2xx", "3xx", "4xx"}}
    \cup {JsonPayload("2xx", "obj", TRUE, hm, m, "obj", l, Absent) :
            hm \in BOOLEAN, m \in {Str(<<"Invalid GSTIN">>)}, l \in {Absent, Str(Acme)}}
    \cup {JsonPayload("2xx", "obj", FALSE, FALSE, Absent, "obj", l, t) :
            l \in {Absent, Str(Blank), Str(Acme), Other}, t \in {Absent, Str(Acme)}}
    \cup {JsonPayload("2xx", "obj", FALSE, FALSE, Absent, i, Absent, Absent) :
            i \in {"absent", "other"}}
    \cup {JsonPayload("2xx", s, FALSE, FALSE, Absent, "absent", Absent, Absent) :
            s \in {"null", "other"}}

\* The inputs of the concurrent runs: valid submits for the same GSTIN with
\* differing payloads and for another GSTIN, and a verify whose call times out or
\* succeeds.
CoreSubmitBodies ==
    {FilledBody(G1, Acme), FilledBody(G1Loose, AcmeLoose), FilledBody(G2, Acme)}

CoreVerifyBodies == {[EmptyBody("obj") EXCEPT !.gstn = Str(G1Loose)]}

CoreErrorTexts == {<<"timed out">>}

CoreUpstreamOutcomes ==
    {NoPayload("transport", "none", e) : e \in CoreErrorTexts}
    \cup {JsonPayload("2xx", "obj", FALSE, FALSE, Absent, "obj", Str(AcmeLoose), Str(Acme))}

\* ------------------------------------------------------------------ state

Slots == 1..NumRequests

IdleRequest ==
    [kind |-> "idle", pc |-> "idle", body |-> EmptyBody("absent"), gstn |-> <<>>,
     up |-> NoPayload("none", "none", <<>>), usedPool |-> 0, outcome |-> "none",
     resp |-> NoResponse]

Init ==
    /\ secretSet \in BOOLEAN
    /\ dbUrlSet \in BOOLEAN
    /\ pool = 0
    /\ poolsBuilt = 0
    /\ schema_ready = FALSE
    /\ tableCreated = FALSE
    /\ rows = {}
    /\ req = [r \in Slots |-> IdleRequest]

\* now(): the database's clock, which no two inserts read alike.
Now == Cardinality(rows) + 1

Shared == <<pool, poolsBuilt, schema_ready, tableCreated, rows>>
Config == <<secretSet, dbUrlSet>>

\* Requests arrive one after another: slot r is taken once slot r - 1 is.
Arrives(r) == req[r].pc = "idle" /\ (IF r = 1 THEN TRUE ELSE req[r - 1].pc # "idle")

\* ---------------------------------------------------------------- actions

\* POST /api/verify_gst arrives: parse, normalize, validate, check the secret,
\* and issue the outbound call (app.py:143-161).
VerifyReceive(r, body) ==
    /\ Arrives(r)
    /\ LET resp == VerifyBeforeCall(body, secretSet) IN
       req' = [req EXCEPT ![r].kind = "verify", ![r].body = body, ![r].resp = resp,
                          ![r].gstn = Normalized(body.gstn),
                          ![r].pc = IF resp = NoResponse THEN "upstream" ELSE "done"]
    /\ UNCHANGED <<Shared, Config>>

\* The outbound call returns or raises up; the handler answers (app.py:162-182).
VerifyUpstreamPersisting(r, up) ==
    /\ req[r].kind = "verify"
    /\ req[r].pc = "upstream"
    /\ LET resp == VerifyAfterCall(req[r].gstn, up) IN
       /\ req' = [req EXCEPT ![r].up = up, ![r].resp = resp, ![r].pc = "done"]
       /\ rows' = IF resp.ok
                  THEN rows \cup {[gstn |-> resp.fields[1], legal_name |-> resp.fields[2],
                                   firm_name |-> resp.fields[3], name1 |-> <<>>,
                                   name2 |-> <<>>, contact |-> <<>>, created_at |-> Now]}
                  ELSE rows
    /\ UNCHANGED <<pool, poolsBuilt, schema_ready, tableCreated, Config>>

VerifyUpstream(r, up) ==
    /\ req[r].kind = "verify"
    /\ req[r].pc = "upstream"
    /\ req' = [req EXCEPT ![r].up = up, ![r].pc = "done",
                          ![r].resp = VerifyAfterCall(req[r].gstn, up)]
    /\ UNCHANGED <<Shared, Config>>

\* POST /submit arrives: parse, normalize, validate (app.py:186-198).
SubmitReceive(r, body) ==
    /\ Arrives(r)
    /\ LET resp == SubmitBeforeInsert(body) IN
       req' = [req EXCEPT ![r].kind = "submit", ![r].body = body, ![r].resp = resp,
                          ![r].gstn = Normalized(body.gstn),
                          ![r].pc = IF resp = NoResponse THEN "get_pool" ELSE "done"]
    /\ UNCHANGED <<Shared, Config>>

\* GET /healthz arrives (app.py:131-134).
HealthzReceive(r) ==
    /\ Arrives(r)
    /\ req' = [req EXCEPT ![r].kind = "healthz", ![r].pc = "get_pool"]
    /\ UNCHANGED <<Shared, Config>>

\* The handler's except clauses, for an exception with text detail raised by
\* get_pool() or by the statement (app.py:138-139, 214-216).
Fails(r, detail) ==
    req' = [req EXCEPT ![r].pc = "done", ![r].outcome = "fault",
                       ![r].resp = IF req[r].kind = "submit"
                                   THEN SubmitAfterInsert(<<>>, "fault", detail)
                                   ELSE HealthzResponse("fault", detail)]

\* get_pool(): the DATABASE_URL check and the read of the global pool
\* (app.py:62-65).
GetPoolEnter(r) ==
    /\ req[r].pc = "get_pool"
    /\ IF ~dbUrlSet THEN Fails(r, MsgNoDbUrl)
       ELSE req' = [req EXCEPT ![r].pc = IF pool = 0 THEN "construct" ELSE "schema_check"]
    /\ UNCHANGED <<Shared, Config>>

\* pool = ConnectionPool(...) (app.py:66).
ConstructPool(r) ==
    /\ req[r].pc = "construct"
    /\ poolsBuilt' = poolsBuilt + 1
    /\ pool' = poolsBuilt + 1
    /\ req' = [req EXCEPT ![r].pc = "schema_check"]
    /\ UNCHANGED <<schema_ready, tableCreated, rows, Config>>

\* if not _schema_ready (app.py:68); when it is set, return pool (app.py:117).
SchemaCheck(r) ==
    /\ req[r].pc = "schema_check"
    /\ req' = IF schema_ready
              THEN [req EXCEPT ![r].pc = "exec", ![r].usedPool = pool]
              ELSE [req EXCEPT ![r].pc = "ddl"]
    /\ UNCHANGED <<Shared, Config>>

\* The create table / migration block runs and commits (app.py:69-114).  The
\* block is taken to succeed whether or not the table exists and whether or
\* not another request runs it at the same time.
RunDdl(r) ==
    /\ req[r].pc = "ddl"
    /\ tableCreated' = TRUE
    /\ req' = [req EXCEPT ![r].pc = "set_ready"]
    /\ UNCHANGED <<pool, poolsBuilt, schema_ready, rows, Config>>

\* Acquiring the connection or running the block raises an exception with text
\* e (app.py:69-114).
DdlFault(r, e) ==
    /\ req[r].pc = "ddl"
    /\ Fails(r, e)
    /\ UNCHANGED <<Shared, Config>>

\* _schema_ready = True; return pool (app.py:115-117).
SetReady(r) ==
    /\ req[r].pc = "set_ready"
    /\ schema_ready' = TRUE
    /\ req' = [req EXCEPT ![r].pc = "exec", ![r].usedPool = pool]
    /\ UNCHANGED <<pool, poolsBuilt, tableCreated, rows, Config>>

\* submit's insert ... returning gstn, as one statement of the database
\* (app.py:201-218).
Insert(r) ==
    /\ req[r].kind = "submit"
    /\ req[r].pc = "exec"
    /\ LET row == RowOf(req[r].body, Now) IN
       IF ViolatesPrimaryKey(rows, row)
       THEN /\ rows' = rows
            /\ req' = [req EXCEPT ![r].pc = "done", ![r].outcome = "unique_violation",
                         ![r].resp = SubmitAfterInsert(row.gstn, "unique_violation", <<>>)]
       ELSE /\ rows' = rows \cup {row}
            /\ req' = [req EXCEPT ![r].pc = "done", ![r].outcome = "inserted",
                         ![r].resp = SubmitAfterInsert(row.gstn, "inserted", <<>>)]
    /\ UNCHANGED <<pool, poolsBuilt, schema_ready, tableCreated, Config>>

\* healthz's select 1 (app.py:134-137).
Select(r) ==
    /\ req[r].kind = "healthz"
    /\ req[r].pc = "exec"
    /\ req' = [req EXCEPT ![r].pc = "done", ![r].outcome = "selected",
                          ![r].resp = HealthzResponse("selected", <<>>)]
    /\ UNCHANGED <<Shared, Config>>

\* Acquiring the connection or running the statement raises an exception with
\* text e that is no UniqueViolation (app.py:138, 214).
ExecFault(r, e) ==
    /\ req[r].pc = "exec"
    /\ Fails(r, e)
    /\ UNCHANGED <<Shared, Config>>

\* The steps of get_pool().
GetPoolStep(r) ==
    \/ GetPoolEnter(r)
    \/ ConstructPool(r)
    \/ SchemaCheck(r)
    \/ RunDdl(r)
    \/ SetReady(r)

\* Concurrent requests, one handler thread each.
Next ==
    \E r \in Slots :
        \/ \E body \in CoreVerifyBodies : VerifyReceive(r, body)
        \/ \E up \in CoreUpstreamOutcomes : VerifyUpstream(r, up)
        \/ \E body \in CoreSubmitBodies : SubmitReceive(r, body)
        \/ HealthzReceive(r)
        \/ GetPoolStep(r)
        \/ Insert(r)
        \/ Select(r)
        \/ \E e \in CoreErrorTexts : DdlFault(r, e) \/ ExecFault(r, e)

Spec == Init /\ [][Next]_vars

\* A process started against a database that may already hold a submission.
InitInputs ==
    /\ secretSet \in BOOLEAN
    /\ dbUrlSet \in BOOLEAN
    /\ pool = 0
    /\ poolsBuilt = 0
    /\ schema_ready = FALSE
    /\ rows \in {{}, {RowOf(FilledBody(G1, Acme), 0)}}
    /\ tableCreated = (rows # {})
    /\ req = [r \in Slots |-> IdleRequest]

\* One request, over every kind of body, of upstream outcome and of fault.
NextInputs ==
    \/ \E body \in VerifyBodies : VerifyReceive(1, body)
    \/ \E up \in UpstreamOutcomes : VerifyUpstream(1, up)
    \/ \E body \in SubmitBodies : SubmitReceive(1, body)
    \/ HealthzReceive(1)
    \/ GetPoolStep(1)
    \/ Insert(1)
    \/ Select(1)
    \/ \E e \in ErrorTexts : DdlFault(1, e) \/ ExecFault(1, e)

SpecInputs == InitInputs /\ [][NextInputs]_vars

\* Raw GSTIN inputs: the valid G1 with one character replaced by each character
\* of Alphabet, cut short, extended by one character, with the sharp s standing
\* for two letters, each with up to MaxPad spaces on either side.
Alphabet == {"0", "A", "Z", "a", " ", "\n", "-", ArabicThree, SharpS}

Cores ==
    {[G1 EXCEPT ![i] = c] : i \in 1..GstinLen, c \in Alphabet}
    \cup {SubSeq(G1, 1, n) : n \in 0..GstinLen}
    \cup {G1 \o <<c>> : c \in Alphabet}
    \cup {SubSeq(G1, 1, 5) \o <<SharpS>> \o SubSeq(G1, 8, GstinLen), G2}

Pads == {[i \in 1..k |-> " "] : k \in 0..MaxPad}

RawGstns == {l \o c \o t : l \in Pads, c \in Cores, t \in Pads}

\* A verify of a raw GSTIN, then a submit of the same raw GSTIN with the other
\* fields filled.
NextValidator ==
    \/ \E raw \in RawGstns : VerifyReceive(1, [EmptyBody("obj") EXCEPT !.gstn = Str(raw)])
    \/ \E up \in CoreUpstreamOutcomes : VerifyUpstream(1, up)
    \/ req[1].pc = "done" /\ SubmitReceive(2, FilledBody(req[1].body.gstn.v, Acme))
    \/ GetPoolStep(2)
    \/ Insert(2)
    \/ \E e \in CoreErrorTexts : DdlFault(2, e) \/ ExecFault(2, e)

SpecValidator == Init /\ [][NextValidator]_vars

\* ----------------------------------------------------------------- claims

Done(r) == req[r].pc = "done"

\* The normalized gstn of request r (the handler's local gstn).
Key(r) == req[r].gstn

IsSubmit(r) == req[r].kind = "submit"
IsVerify(r) == req[r].kind = "verify"

\* The submits for GSTIN g.
SubmitsFor(g) == {r \in Slots : IsSubmit(r) /\ Key(r) = g}

RowsFor(table, g) == {x \in table : x.gstn = g}

\* C1: when two or more valid submits carrying the same normalized gstn, started
\* against a store with no row for it, have all returned (in any interleaving,
\* none hit by a storage fault), exactly one got {ok:true} with status 200, every
\* other got {ok:false, code:"duplicate"} with status 409, and exactly one row
\* for that gstn exists.
C1_ExactlyOneWinner ==
    \A g \in {Key(r) : r \in Slots} :
        LET S == SubmitsFor(g) IN
        (Cardinality(S) >= 2 /\ \A r \in S : Done(r) /\ req[r].outcome # "fault") =>
            /\ Cardinality({r \in S : req[r].resp.status = 200 /\ req[r].resp.ok}) = 1
            /\ \A r \in S :
                 \/ req[r].resp.status = 200 /\ req[r].resp.ok
                 \/ /\ req[r].resp.status = 409
                    /\ ~req[r].resp.ok
                    /\ req[r].resp.code = "duplicate"
            /\ Cardinality(RowsFor(rows, g)) = 1

\* C1 witness: two submits with the same key and differing payloads raced through
\* get_pool (each built a pool) and both returned, one 200 and one 409.
C1_Witness ==
    \E r1, r2 \in Slots :
        /\ r1 # r2 /\ IsSubmit(r1) /\ IsSubmit(r2) /\ Done(r1) /\ Done(r2)
        /\ Key(r1) = Key(r2)
        /\ req[r1].body # req[r2].body
        /\ req[r1].resp.status = 200
        /\ req[r2].resp.status = 409
        /\ poolsBuilt >= 2

C2_AtMostOneRow == \A x, y \in rows : x.gstn = y.gstn => x = y

C2_SubmitStep ==
    \A r \in Slots :
        (IsSubmit(r) /\ req[r].pc = "exec" /\ req'[r].pc = "done"
            /\ req'[r].outcome # "fault") =>
            IF RowsFor(rows, Key(r)) # {}
            THEN req'[r].resp.status = 409 /\ rows' = rows
            ELSE /\ req'[r].resp.status = 200
                 /\ req'[r].resp.fields = <<Key(r)>>
                 /\ Cardinality(RowsFor(rows', Key(r))) = 1

\* C2: the store holds at most one row per gstn; no step updates or deletes a
\* row; a valid submit whose insert runs returns 200 with id = normalized gstn
\* when no row for the gstn exists, and 409 with the store unchanged when one
\* does, whatever its payload or the case and whitespace of its gstn.
C2_InsertOnce == []C2_AtMostOneRow /\ [][rows \subseteq rows' /\ C2_SubmitStep]_vars

\* C2 witness: a submit returned 200, a later one whose raw gstn differs only in
\* case and whitespace and whose payload differs returned 409, and the row still
\* holds the first one's fields.
C2_Witness ==
    \E r1, r2 \in Slots :
        /\ IsSubmit(r1) /\ IsSubmit(r2) /\ Done(r1) /\ Done(r2)
        /\ Key(r1) = Key(r2)
        /\ req[r1].body.gstn # req[r2].body.gstn
        /\ Stripped(req[r1].body.legal_name) # Stripped(req[r2].body.legal_name)
        /\ req[r1].resp.status = 200 /\ req[r1].resp.fields = <<Key(r1)>>
        /\ req[r2].resp.status = 409
        /\ RowsFor(rows, Key(r1)) = {RowOf(req[r1].body, 1)}

\* A field that is missing, or a string that is empty after trimming.
EmptyAfterTrim(x) == x.t = "absent" \/ (x.t = "str" /\ Strip(x.v) = <<>>)

\* The structural pattern, on a normalized string: 2 digits, 5 uppercase
\* letters, 4 digits, 1 uppercase letter, 1 alphanumeric, Z, 1 alphanumeric.
\* A digit position takes any decimal digit, an alphanumeric one A-Z or 0-9.
StructuralPattern(s) ==
    /\ Len(s) = 15
    /\ \A i \in {1, 2, 8, 9, 10, 11} : s[i] \in AsciiDigits \cup {ArabicThree}
    /\ \A i \in {3, 4, 5, 6, 7, 12} : s[i] \in Range(UpperLetters)
    /\ \A i \in {13, 15} : s[i] \in Range(UpperLetters) \cup AsciiDigits
    /\ s[14] = "Z"

\* C3 (as claimed): a submit with any of gstn, legal_name, firm_name, name1,
\* contact empty after trimming, or with a normalized gstn that fails the format
\* check, returns 400 without attempting the insert.
C3_Original ==
    \A r \in Slots :
        (IsSubmit(r) /\ Done(r) /\ req[r].body.shape # "other"
            /\ \/ \E f \in RequiredFields : EmptyAfterTrim(req[r].body[f])
               \/ req[r].body.gstn.t = "str" /\ ~StructuralPattern(Key(r))) =>
            req[r].resp.status = 400 /\ ~req[r].resp.unhandled /\ req[r].outcome = "none"

\* Verify's validation rejected request r: 400 with no outbound call.
VerifyRejected(r) ==
    IsVerify(r) /\ Done(r) /\ req[r].up.kind = "none" /\ req[r].resp.status = 400

\* Verify's validation accepted request r.
VerifyAccepted(r) == IsVerify(r) /\ req[r].pc \in {"upstream", "done"} /\ ~VerifyRejected(r)

C4_VerifyStep ==
    \A r \in Slots :
        ((IsVerify(r) \/ req'[r].kind = "verify") /\ req'[r] # req[r]) =>
            rows' = rows /\ tableCreated' = tableCreated

C4_Timeout ==
    \A r \in Slots :
        (IsVerify(r) /\ Done(r) /\ req[r].up.kind = "transport") =>
            /\ req[r].resp.status = 502
            /\ ~req[r].resp.ok
            /\ req[r].resp.message.t = "str"
            /\ req[r].resp.message.v[1] = "Error contacting AppyFlow: "

\* C4: no step of a verify request, for any input and any upstream outcome,
\* changes the persisted submissions; a transport failure or timeout yields
\* status 502 with a message that starts "Error contacting".
C4_VerifyReadOnly == []C4_Timeout /\ [][C4_VerifyStep]_vars

\* C4 witness: a verify whose upstream call timed out has answered 502 while the
\* store holds a row.
C4_Witness ==
    \E r \in Slots :
        /\ IsVerify(r) /\ Done(r) /\ req[r].up.kind = "transport"
        /\ req[r].resp.status = 502
        /\ rows # {}

C6_Status(up) ==
    IF ~secretSet THEN 500
    ELSE IF up.kind = "transport" \/ up.http # "2xx" THEN 502
    ELSE IF up.kind = "non_json" THEN 502
    ELSE IF up.shape = "obj" /\ up.error THEN 400
    ELSE IF EmptyAfterTrim(up.lgnm) /\ EmptyAfterTrim(up.tradeNam) THEN 404
    ELSE 200

\* C6 (as claimed): for a format-valid gstn the response of verify is the first
\* matching case of: no secret, 500 and no call; transport failure or non-2xx,
\* 502; non-JSON body, 502; error flag, 400 with the upstream message or a
\* generic one; both names empty, 404; otherwise 200 with the trimmed names.
C6_Original ==
    \A r \in Slots :
        (IsVerify(r) /\ Done(r) /\ req[r].body.gstn.t = "str" /\ StructuralPattern(Key(r))) =>
            /\ req[r].resp.status = C6_Status(req[r].up)
            /\ ~req[r].resp.unhandled
            /\ ~secretSet => req[r].up.kind = "none"
            /\ req[r].resp.status = 400 =>
                   req[r].resp.message =
                       IF req[r].up.hasMessage THEN req[r].up.message ELSE MsgVerifyFailed
            /\ req[r].resp.status = 200 =>
                   /\ req[r].resp.ok
                   /\ req[r].resp.fields =
                          <<Key(r), Stripped(req[r].up.lgnm), Stripped(req[r].up.tradeNam)>>

\* C7 (as claimed): every verify and submit ends with the uniform JSON response
\* and a status, never with an uncaught exception.
C7_Original == \A r \in Slots : Done(r) => ~req[r].resp.unhandled

\* C8 (as claimed): a submit whose insert failed for a reason other than a
\* uniqueness violation answers 500 with a body that is the same whatever the
\* text of the internal exception.
C8_Original ==
    \A r \in Slots :
        (IsSubmit(r) /\ Done(r) /\ req[r].outcome = "fault") =>
            /\ req[r].resp.status = 500
            /\ \A e \in ErrorTexts \cup {MsgNoDbUrl} :
                   SubmitAfterInsert(<<>>, "fault", e) = req[r].resp

\* Submit's validation rejected request r: 400 with no insert attempted.
SubmitRejected(r) ==
    IsSubmit(r) /\ Done(r) /\ req[r].outcome = "none" /\ req[r].resp.status = 400

\* The failure reason a validation message states.
Reason(message) ==
    IF message \in {MsgRequired, MsgFill} THEN "required"
    ELSE IF message = MsgLength THEN "length"
    ELSE IF message = MsgFormat THEN "format"
    ELSE "none"

\* C9 (as claimed): for the same raw gstn (the other submit fields non-empty),
\* verify's and submit's validation make the same decision and, when they
\* reject, state the same reason.
C9_Original ==
    \A r1, r2 \in Slots :
        (IsVerify(r1) /\ IsSubmit(r2) /\ Done(r1) /\ Done(r2)
            /\ req[r1].body.gstn = req[r2].body.gstn) =>
            /\ VerifyRejected(r1) <=> SubmitRejected(r2)
            /\ VerifyRejected(r1) =>
                   Reason(req[r1].resp.message) = Reason(req[r2].resp.message)

\* C10 (as claimed): at most one connection pool is ever constructed, and it is
\* the one every request that got a pool uses.
C10_Original ==
    /\ poolsBuilt <= 1
    /\ \A r \in Slots : req[r].usedPool \in {0, 1}

====
